---- MODULE Spec2Model ----
(***************************************************************************)
(* The call-definition pass of the interface macro:                        *)
(*   frame/support/procedural/src/interface/parse/definition/call.rs       *)
(* CallDef::try_from folds one trait method at a time into a call table,   *)
(* CallDef::check_selectors cross-checks the finished table against the    *)
(* selector definitions.                                                   *)
(***************************************************************************)
EXTENDS Integers, Sequences, FiniteSets, TLC

(***************************************************************************)
(* Option<T>: None is the empty sequence, Some(x) the one-element one.     *)
(***************************************************************************)
None == <<>>

Some(x) == <<x>>

IsSome(o) == Len(o) = 1

Unwrap(o) == o[1]

(***************************************************************************)
(* syn::Type, as far as the pass looks into it.  A path type has an        *)
(* optional qualified self (`<ty as Trait>::Assoc`, `position` counting    *)
(* the segments of the trait) and segments, each an identifier with its    *)
(* angle-bracketed type arguments.  Every other type (here: a tuple) is    *)
(* carried as it is.                                                       *)
(***************************************************************************)
PathSegment(ident, args) == [ident |-> ident, args |-> args]

QSelf(ty, position) == [ty |-> ty, position |-> position]

TypePath(qself, segments) ==
    [k |-> "Path", qself |-> qself, segments |-> segments, elems |-> <<>>]

TypeTuple(elems) ==
    [k |-> "Tuple", qself |-> None, segments |-> <<>>, elems |-> elems]

\* `a::b::c`, no type arguments
Plain(idents) == TypePath(None, [i \in DOMAIN idents |-> PathSegment(idents[i], <<>>)])

\* `name<arg>`
Generic(name, arg) == TypePath(None, <<PathSegment(name, <<arg>>)>>)

(***************************************************************************)
(* quote::ToTokens for a type: the token stream the signature checks       *)
(* parse.                                                                  *)
(***************************************************************************)
RECURSIVE ToTokens(_)
RECURSIVE TokensOfList(_, _)
RECURSIVE TokensOfSegments(_, _, _)

TokensOfList(tys, i) ==
    IF i > Len(tys) THEN <<>>
    ELSE (IF i > 1 THEN <<",">> ELSE <<>>) \o ToTokens(tys[i]) \o TokensOfList(tys, i + 1)

TokensOfSegments(segs, i, to) ==
    IF i > to THEN <<>>
    ELSE <<segs[i].ident>>
         \o (IF segs[i].args = <<>> THEN <<>>
             ELSE <<"<">> \o TokensOfList(segs[i].args, 1) \o <<">">>)
         \o (IF i < to THEN <<"::">> ELSE <<>>)
         \o TokensOfSegments(segs, i + 1, to)

ToTokens(ty) ==
    IF ty.k = "Tuple" THEN <<"(">> \o TokensOfList(ty.elems, 1) \o <<")">>
    ELSE IF ty.qself = None THEN TokensOfSegments(ty.segments, 1, Len(ty.segments))
    ELSE LET q == Unwrap(ty.qself) IN
         <<"<">> \o ToTokens(q.ty)
         \o (IF q.position > 0
             THEN <<"as">> \o TokensOfSegments(ty.segments, 1, q.position)
             ELSE <<>>)
         \o <<">", "::">>
         \o TokensOfSegments(ty.segments, q.position + 1, Len(ty.segments))

(***************************************************************************)
(* keyword::CallResult, keyword::RuntimeOrigin, keyword::Select            *)
(***************************************************************************)
keyword_CallResult == "CallResult"

keyword_RuntimeOrigin == "RuntimeOrigin"

keyword_Select == "Select"

(***************************************************************************)
(* check_call_first_arg_type: the tokens are exactly `Self::RuntimeOrigin` *)
(***************************************************************************)
check_call_first_arg_type(ty) ==
    ToTokens(ty) = <<"Self", "::", keyword_RuntimeOrigin>>

(***************************************************************************)
(* check_call_return_type: the parser peeks keyword::CallResult, consumes  *)
(* it, and parse2 wants the stream to end there.                           *)
(***************************************************************************)
check_call_return_type(type_) ==
    LET input == ToTokens(type_) IN
    /\ Len(input) >= 1
    /\ input[1] = keyword_CallResult
    /\ Len(input) = 1

(***************************************************************************)
(* adapt_type_to_generic_if_self: a type that is not a path is returned as *)
(* it is; in a path the qualified self is rewritten recursively and every  *)
(* segment named `Self` is renamed `Runtime`.  The arguments of a segment  *)
(* are not visited.                                                        *)
(***************************************************************************)
\* a rewrite that renames every segment of a path
adapt_every_segment(ty) ==
    IF ty.k # "Path" THEN ty
    ELSE [ty EXCEPT !.segments = [i \in DOMAIN ty.segments |->
                                    [ty.segments[i] EXCEPT !.ident = "Runtime"]]]

RECURSIVE adapt_type_to_generic_if_self(_)

adapt_type_to_generic_if_self(ty) ==
    IF ty.k # "Path" THEN ty
    ELSE [ty EXCEPT
            !.qself = IF ty.qself = None THEN None
                      ELSE LET q_self == Unwrap(ty.qself) IN
                           Some(QSelf(adapt_type_to_generic_if_self(q_self.ty),
                                      q_self.position)),
            !.segments = [i \in DOMAIN ty.segments |->
                            IF ty.segments[i].ident = "Self"
                            THEN [ty.segments[i] EXCEPT !.ident = "Runtime"]
                            ELSE ty.segments[i]]]

(***************************************************************************)
(* proc_macro2::Span: the declaration a token belongs to (its position in  *)
(* the trait) and which part of the declaration it covers.                 *)
(***************************************************************************)
Span(decl, at) == [decl |-> decl, at |-> at]

\* syn::Error: a list of (span, message); `combine` appends.
Error(span, msg) == <<[span |-> span, msg |-> msg]>>

\* syn::Ident
Ident(name, span) == [name |-> name, span |-> span]

(***************************************************************************)
(* An attribute as written, `#[ns::kw(...)]`: for call_index the integer   *)
(* literal (value and suffix), for use_selector the identifier, for weight *)
(* the expression, for a doc comment its text.                             *)
(***************************************************************************)
Attribute(ns, kw, value, suffix, text) ==
    [ns |-> ns, kw |-> kw, value |-> value, suffix |-> suffix, text |-> text]

attr_call_index(n) == Attribute("interface", "call_index", n, "", "")

attr_weight(w) == Attribute("interface", "weight", 0, "", w)

attr_use_selector(name) == Attribute("interface", "use_selector", 0, "", name)

attr_no_selector == Attribute("interface", "no_selector", 0, "", "")

attr_compact == Attribute("interface", "compact", 0, "", "")

attr_doc(text) == Attribute("doc", "doc", 0, "", text)

\* the largest u8
U8Max == 255

(***************************************************************************)
(* enum CallAttr { Index(u8), Weight(Expr), UseSelector(Ident),            *)
(* NoSelector } and its parser.                                            *)
(***************************************************************************)
CallAttr(k, idx, name, expr) == [k |-> k, idx |-> idx, name |-> name, expr |-> expr]

\* a parser that drops the suffix and keeps the low eight bits of the literal
CallAttr_parse_wrapping(a) ==
    IF a.kw = "call_index"
    THEN [ok |-> TRUE, attr |-> CallAttr("Index", a.value % (U8Max + 1), "", "")]
    ELSE IF a.kw = "use_selector" THEN
        [ok |-> TRUE, attr |-> CallAttr("UseSelector", 0, a.text, "")]
    ELSE IF a.kw = "no_selector" THEN
        [ok |-> TRUE, attr |-> CallAttr("NoSelector", 0, "", "")]
    ELSE IF a.kw = "weight" THEN
        [ok |-> TRUE, attr |-> CallAttr("Weight", 0, "", a.text)]
    ELSE [ok |-> FALSE, attr |-> CallAttr("", 0, "", "")]

CallAttr_parse(a) ==
    IF a.kw = "call_index" THEN
        IF a.suffix # "" THEN [ok |-> FALSE, attr |-> CallAttr("", 0, "", "")]
        ELSE IF a.value < 0 \/ a.value > U8Max THEN [ok |-> FALSE, attr |-> CallAttr("", 0, "", "")]
        ELSE [ok |-> TRUE, attr |-> CallAttr("Index", a.value, "", "")]
    ELSE IF a.kw = "use_selector" THEN
        [ok |-> TRUE, attr |-> CallAttr("UseSelector", 0, a.text, "")]
    ELSE IF a.kw = "no_selector" THEN
        [ok |-> TRUE, attr |-> CallAttr("NoSelector", 0, "", "")]
    ELSE IF a.kw = "weight" THEN
        [ok |-> TRUE, attr |-> CallAttr("Weight", 0, "", a.text)]
    ELSE [ok |-> FALSE, attr |-> CallAttr("", 0, "", "")]

\* ArgAttrIsCompact: `#[interface::compact]`
ArgAttrIsCompact_parse(a) == a.kw = "compact"

(***************************************************************************)
(* helper::take_item_interface_attrs::<Attr>: takes the `interface::`      *)
(* attributes off the item one by one, in order, parsing each as Attr; the *)
(* first that does not parse is the error.  `rest` is what stays on the    *)
(* item.                                                                   *)
(***************************************************************************)
Attr_parses(a, Attr) ==
    IF Attr = "CallAttr" THEN CallAttr_parse(a).ok ELSE ArgAttrIsCompact_parse(a)

RECURSIVE take_item_interface_attrs(_, _)

take_item_interface_attrs(attrs, Attr) ==
    IF attrs = <<>> THEN [ok |-> TRUE, taken |-> <<>>, rest |-> <<>>]
    ELSE LET a == Head(attrs) IN
         IF a.ns # "interface"
         THEN LET r == take_item_interface_attrs(Tail(attrs), Attr) IN
              [r EXCEPT !.rest = <<a>> \o r.rest]
         ELSE IF ~Attr_parses(a, Attr)
         THEN [ok |-> FALSE, taken |-> <<>>, rest |-> Tail(attrs)]
         ELSE LET r == take_item_interface_attrs(Tail(attrs), Attr) IN
              [r EXCEPT !.taken = IF r.ok THEN <<a>> \o r.taken ELSE <<>>]

\* get_doc_literals: the texts of the doc attributes
get_doc_literals(attrs) ==
    LET docs == SelectSeq(attrs, LAMBDA a : a.ns = "doc") IN
    [i \in DOMAIN docs |-> docs[i].text]

(***************************************************************************)
(* syn::TraitItem, syn::FnArg, syn::Pat as far as the pass reads them.     *)
(* `pos` is the declaration's place in the trait; its spans derive from    *)
(* it.                                                                     *)
(***************************************************************************)
Pat(k, ident) == [k |-> k, ident |-> ident]

FnArg(k, pat, ty, attrs) == [k |-> k, pat |-> pat, ty |-> ty, attrs |-> attrs]

TraitItem(kind, ident, attrs, inputs, output) ==
    [kind |-> kind, ident |-> ident, attrs |-> attrs, inputs |-> inputs,
     output |-> output, pos |-> 0]

(***************************************************************************)
(* interface::SelectorType, struct SingleCallDef, struct CallDef           *)
(***************************************************************************)
SelectorType(k, name, return_ty) == [k |-> k, name |-> name, return_ty |-> return_ty]

SingleCallDef(selector, name, args, weight, call_index, docs, attrs, attr_span) ==
    [selector |-> selector, name |-> name, args |-> args, weight |-> weight,
     call_index |-> call_index, docs |-> docs, attrs |-> attrs, attr_span |-> attr_span]

\* a table that holds its newest entry first
CallDef_newest_first(interface_span, calls) ==
    [interface_span |-> interface_span,
     calls |-> [i \in DOMAIN calls |-> calls[Len(calls) + 1 - i]]]

CallDef(interface_span, calls) == [interface_span |-> interface_span, calls |-> calls]

(***************************************************************************)
(* HashMap<u8, Ident>::insert: the value the key had, and the new map.     *)
(***************************************************************************)
HashMap_insert(map, key, value) ==
    [old |-> IF key \in DOMAIN map THEN Some(map[key]) ELSE None,
     map |-> [x \in DOMAIN map \cup {key} |-> IF x = key THEN value ELSE map[x]]]

(***************************************************************************)
(* try_from, lines 57-61: the index-to-name map of the incoming table,     *)
(* with the assertion that no insert finds its key taken.                  *)
(***************************************************************************)
RECURSIVE collect_indices(_, _, _)

collect_indices(calls, i, indices) ==
    IF i > Len(calls) THEN [asserted |-> TRUE, indices |-> indices]
    ELSE LET ins == HashMap_insert(indices, calls[i].call_index, calls[i].name) IN
         IF ins.old # None THEN [asserted |-> FALSE, indices |-> ins.map]
         ELSE collect_indices(calls, i + 1, ins.map)

(***************************************************************************)
(* try_from, lines 86-145: the fold that sorts the directives into weight  *)
(* candidates, call-index candidates and at most one selector directive.   *)
(***************************************************************************)
MsgNoGlobalSelector ==
    "Invalid interface::view, selector attributes given but top level mod misses interface::with_selector attribute."

MsgBothSelectors ==
    "Invalid interface::view, both interface::no_selector and interface::use_selector used on the same method. Use either one or the other"

MsgMultipleNoSelector ==
    "Invalid interface::view, multiple interface::no_selector attributes used on the same method. Only one is allowed."

MsgMultipleUseSelector ==
    "Invalid interface::view, multiple interface::use_selector attributes used on the same method. Only one is allowed."

\* lines 96-115 and 119-137: what a selector directive fails with, if it does
\* a check that lets selector directives through without the global mode
selector_attr_error_ungated(attr, selector_attr, global_selector) ==
    IF attr.k = "NoSelector"
    THEN IF IsSome(selector_attr) /\ Unwrap(selector_attr).k = "UseSelector"
         THEN Some(MsgBothSelectors)
         ELSE IF IsSome(selector_attr) THEN Some(MsgMultipleNoSelector)
         ELSE None
    ELSE IF IsSome(selector_attr) /\ Unwrap(selector_attr).k = "NoSelector"
         THEN Some(MsgBothSelectors)
         ELSE IF IsSome(selector_attr) THEN Some(MsgMultipleUseSelector)
         ELSE None

\* a check that looks at the directive seen before only for use_selector
selector_attr_error_no_selector_last(attr, selector_attr, global_selector) ==
    IF ~global_selector THEN Some(MsgNoGlobalSelector)
    ELSE IF attr.k = "NoSelector" THEN None
    ELSE IF IsSome(selector_attr) /\ Unwrap(selector_attr).k = "NoSelector"
    THEN Some(MsgBothSelectors)
    ELSE IF IsSome(selector_attr) THEN Some(MsgMultipleUseSelector)
    ELSE None

selector_attr_error(attr, selector_attr, global_selector) ==
    IF attr.k = "NoSelector"
    THEN IF ~global_selector THEN Some(MsgNoGlobalSelector)
         ELSE IF IsSome(selector_attr) /\ Unwrap(selector_attr).k = "UseSelector"
         THEN Some(MsgBothSelectors)
         ELSE IF IsSome(selector_attr) THEN Some(MsgMultipleNoSelector)
         ELSE None
    ELSE \* UseSelector
         IF ~global_selector THEN Some(MsgNoGlobalSelector)
         ELSE IF IsSome(selector_attr) /\ Unwrap(selector_attr).k = "NoSelector"
         THEN Some(MsgBothSelectors)
         ELSE IF IsSome(selector_attr) THEN Some(MsgMultipleUseSelector)
         ELSE None

RECURSIVE partition_attrs(_, _, _, _)

partition_attrs(attrs, i, acc, global_selector) ==
    IF i > Len(attrs) THEN acc
    ELSE LET attr == attrs[i] IN
         IF attr.k = "Index"
         THEN partition_attrs(attrs, i + 1,
                [acc EXCEPT !.call_idx_attrs = Append(@, attr)], global_selector)
         ELSE IF attr.k = "Weight"
         THEN partition_attrs(attrs, i + 1,
                [acc EXCEPT !.weight_attrs = Append(@, attr)], global_selector)
         ELSE LET e == selector_attr_error(attr, acc.selector_attr, global_selector) IN
              IF IsSome(e) THEN [acc EXCEPT !.ok = FALSE, !.msg = Unwrap(e)]
              ELSE partition_attrs(attrs, i + 1,
                     [acc EXCEPT !.selector_attr = Some(attr)], global_selector)

(***************************************************************************)
(* try_from, lines 147-154 and 160-167: exactly one weight and exactly one *)
(* call_index directive.                                                   *)
(***************************************************************************)
MsgMissingWeight ==
    "Invalid interface::call, requires weight attribute i.e. interface::weight"

MsgTooManyWeight == "Invalid interface::call, too many weight attributes given"

MsgMissingCallIndex ==
    "Invalid interface::call, requires call_index attribute i.e. interface::call_index(u8)"

MsgTooManyCallIndex == "Invalid interface::call, too many call_index attributes given"

\* a check that only looks for a missing weight
weight_attrs_error_missing_only(weight_attrs) ==
    IF weight_attrs = <<>> THEN Some(MsgMissingWeight) ELSE None

weight_attrs_error(weight_attrs) ==
    IF Len(weight_attrs) # 1
    THEN Some(IF weight_attrs = <<>> THEN MsgMissingWeight ELSE MsgTooManyWeight)
    ELSE None

call_idx_attrs_error(call_idx_attrs) ==
    IF Len(call_idx_attrs) # 1
    THEN Some(IF call_idx_attrs = <<>> THEN MsgMissingCallIndex ELSE MsgTooManyCallIndex)
    ELSE None

(***************************************************************************)
(* try_from, lines 172-180: the method that already holds the call index,  *)
(* if there is one, and the diagnostic naming both.                        *)
(***************************************************************************)
\* a step that forgets to look at what the insert returns
used_fn_of_unchecked(indices, call_index, ident) == None

used_fn_of(indices, call_index, ident) == HashMap_insert(indices, call_index, ident).old

\* a diagnostic that names the current method twice
MsgConflict_current_only(used_fn, ident, call_index) ==
    <<"Call indices are conflicting: Both functions", ident, "and", ident,
      "are at index", ToString(call_index)>>

MsgConflict(used_fn, ident, call_index) ==
    <<"Call indices are conflicting: Both functions", used_fn, "and", ident,
      "are at index", ToString(call_index)>>

(***************************************************************************)
(* check_call_second_arg_type: the tokens are `Select < type >` and        *)
(* nothing more; the type between the brackets is the result.              *)
(***************************************************************************)
\* a check that reads the first type after `Select <` and not what follows it
check_call_second_arg_type_prefix(ty) ==
    LET input == ToTokens(ty) IN
    IF /\ Len(input) >= 2
       /\ input[1] = keyword_Select
       /\ input[2] = "<"
       /\ ty.k = "Path" /\ ty.segments # <<>> /\ ty.segments[1].args # <<>>
    THEN Some(ty.segments[1].args[1])
    ELSE None

check_call_second_arg_type(ty) ==
    LET input == ToTokens(ty)
        parsed == IF ty.k = "Path" /\ ty.segments # <<>> /\ ty.segments[1].args # <<>>
                  THEN Some(ty.segments[1].args[1]) ELSE None
    IN
    IF /\ Len(input) >= 2
       /\ input[1] = keyword_Select
       /\ input[2] = "<"
       /\ IsSome(parsed)
       /\ input = <<keyword_Select, "<">> \o ToTokens(Unwrap(parsed)) \o <<">">>
    THEN parsed
    ELSE None

(***************************************************************************)
(* try_from, lines 182-189: whether the call takes a selector.             *)
(***************************************************************************)
\* a resolution that takes any selector directive as asking for a selector
with_selector_of_any_directive(selector_attr, global_selector) ==
    IsSome(selector_attr) \/ global_selector

with_selector_of(selector_attr, global_selector) ==
    IF IsSome(selector_attr)
    THEN Unwrap(selector_attr).k = "UseSelector"
    ELSE global_selector

(***************************************************************************)
(* try_from, lines 190-222: the number of leading parameters to skip and   *)
(* the selector the call needs.                                            *)
(***************************************************************************)
MsgNoSecondArg ==
    "Invalid interface::call, must have Select<$ty> as first argument if used with a selector and not annotated with interface::no_selector."

MsgSecondArgReceiver ==
    "Invalid interface::call, second argument must be a typed argument, e.g. select: Select<$ty>"

MsgExpectedSelect == "Invalid type: expected Select<$ident>"

skip_and_selector(with_selector, selector_attr, inputs, pos) ==
    IF with_selector
    THEN IF Len(inputs) < 2
         THEN [ok |-> FALSE, err |-> Error(Span(pos, "sig"), <<MsgNoSecondArg>>),
               skip |-> 0, selector |-> None]
         ELSE IF inputs[2].k = "Receiver"
         THEN [ok |-> FALSE, err |-> Error(Span(pos, "sig"), <<MsgSecondArgReceiver>>),
               skip |-> 0, selector |-> None]
         ELSE LET first_arg_ty == check_call_second_arg_type(inputs[2].ty) IN
              IF first_arg_ty = None
              THEN [ok |-> FALSE,
                    err |-> Error(Span(pos, "arg2.ty"), <<MsgExpectedSelect>>)
                            \o Error(Span(pos, "arg2.ty"), <<"expected Select<type>">>),
                    skip |-> 0, selector |-> None]
              ELSE LET selector_ty ==
                         IF IsSome(selector_attr)
                         THEN SelectorType("Named", Unwrap(selector_attr).name,
                                           Unwrap(first_arg_ty))
                         ELSE SelectorType("Default", "", Unwrap(first_arg_ty))
                   IN [ok |-> TRUE, err |-> <<>>, skip |-> 2, selector |-> Some(selector_ty)]
    ELSE [ok |-> TRUE, err |-> <<>>, skip |-> 1, selector |-> None]

(***************************************************************************)
(* try_from, lines 224-252: the argument list, from the parameters after   *)
(* the skipped ones.  `inputs` are the parameters as the loop leaves them  *)
(* (their interface attributes taken off).                                 *)
(***************************************************************************)
MsgTooManyArgAttrs == "Invalid interface::call, argument has too many attributes"

MsgArgNotIdent == "Invalid interface::call, argument must be ident"

\* a loop that does not count the markers of an argument
RECURSIVE collect_args_any_markers(_, _, _, _)

collect_args_any_markers(inputs, i, args, pos) ==
    IF i > Len(inputs)
    THEN [status |-> "Ok", err |-> <<>>, args |-> args, inputs |-> inputs]
    ELSE LET arg == inputs[i]
             arg_attrs == take_item_interface_attrs(arg.attrs, "ArgAttrIsCompact")
             inputs1 == [inputs EXCEPT ![i].attrs = arg_attrs.rest]
         IN
         IF arg.k # "Typed"
         THEN [status |-> "Panic", err |-> <<>>, args |-> args, inputs |-> inputs]
         ELSE IF ~arg_attrs.ok
         THEN [status |-> "Err",
               err |-> Error(Span(pos, "arg.attr"), <<"expected compact">>),
               args |-> args, inputs |-> inputs1]
         ELSE IF arg.pat.k # "Ident"
         THEN [status |-> "Err",
               err |-> Error(Span(pos, "arg.pat"), <<MsgArgNotIdent>>),
               args |-> args, inputs |-> inputs1]
         ELSE collect_args_any_markers(inputs1, i + 1,
                    Append(args, [is_compact |-> arg_attrs.taken # <<>>,
                                  ident |-> arg.pat.ident,
                                  ty |-> adapt_type_to_generic_if_self(arg.ty)]),
                    pos)

RECURSIVE collect_args(_, _, _, _)

collect_args(inputs, i, args, pos) ==
    IF i > Len(inputs)
    THEN [status |-> "Ok", err |-> <<>>, args |-> args, inputs |-> inputs]
    ELSE LET arg == inputs[i] IN
         IF arg.k # "Typed"
         THEN \* unreachable!("Only first argument can be receiver")
              [status |-> "Panic", err |-> <<>>, args |-> args, inputs |-> inputs]
         ELSE LET arg_attrs == take_item_interface_attrs(arg.attrs, "ArgAttrIsCompact")
                  inputs1 == [inputs EXCEPT ![i].attrs = arg_attrs.rest]
              IN
              IF ~arg_attrs.ok
              THEN [status |-> "Err",
                    err |-> Error(Span(pos, "arg.attr"), <<"expected compact">>),
                    args |-> args, inputs |-> inputs1]
              ELSE IF Len(arg_attrs.taken) > 1
              THEN [status |-> "Err",
                    err |-> Error(Span(pos, "arg"), <<MsgTooManyArgAttrs>>),
                    args |-> args, inputs |-> inputs1]
              ELSE IF arg.pat.k # "Ident"
              THEN [status |-> "Err",
                    err |-> Error(Span(pos, "arg.pat"), <<MsgArgNotIdent>>),
                    args |-> args, inputs |-> inputs1]
              ELSE LET arg_ty == adapt_type_to_generic_if_self(arg.ty) IN
                   collect_args(inputs1, i + 1,
                                Append(args, [is_compact |-> arg_attrs.taken # <<>>,
                                              ident |-> arg.pat.ident,
                                              ty |-> arg_ty]),
                                pos)

(***************************************************************************)
(* CallDef::try_from: one fold step.  The result is Ok with the table, Err *)
(* with the diagnostics, or Panic (a failed assertion or unreachable!);    *)
(* `item` is the declaration as the step leaves it.                        *)
(***************************************************************************)
MsgNotMethod == "Invalid interface::call, expected item trait method"

MsgNoOrigin == "Invalid interface::call, must have at least origin arg"

MsgFirstArgReceiver ==
    "Invalid interface::call, first argument must be a typed argument, e.g. origin: Self::RuntimeOrigin"

MsgExpectedOrigin == "Invalid type: expected Self::RuntimeOrigin"

MsgNoReturnType == "Invalid Interface::call, require return type InterfaceResult"

MsgExpectedCallResult == "expected CallResult"

Err(err, item) == [status |-> "Err", calls |-> None, err |-> err, item |-> item]

Panic(item) == [status |-> "Panic", calls |-> None, err |-> <<>>, item |-> item]

Ok(calls, item) == [status |-> "Ok", calls |-> Some(calls), err |-> <<>>, item |-> item]

try_from(interface_span, calls, global_selector, attr_span, item) ==
    LET sig == Span(item.pos, "sig") IN
    IF item.kind # "Method" THEN Err(Error(attr_span, <<MsgNotMethod>>), item)
    ELSE
    LET calls0 == IF IsSome(calls) THEN Unwrap(calls) ELSE CallDef(interface_span, <<>>)
        seen == collect_indices(calls0.calls, 1, <<>>)
    IN
    IF ~seen.asserted THEN Panic(item)
    ELSE IF item.inputs = <<>> THEN Err(Error(sig, <<MsgNoOrigin>>), item)
    ELSE IF item.inputs[1].k = "Receiver" THEN Err(Error(sig, <<MsgFirstArgReceiver>>), item)
    ELSE IF ~check_call_first_arg_type(item.inputs[1].ty)
    THEN Err(Error(Span(item.pos, "arg1.ty"), <<MsgExpectedOrigin>>)
             \o Error(Span(item.pos, "arg1.ty"), <<"expected Self::RuntimeOrigin">>), item)
    ELSE IF item.output = None THEN Err(Error(sig, <<MsgNoReturnType>>), item)
    ELSE IF ~check_call_return_type(Unwrap(item.output))
    THEN Err(Error(Span(item.pos, "output"), <<MsgExpectedCallResult>>), item)
    ELSE
    LET taken == take_item_interface_attrs(item.attrs, "CallAttr")
        item1 == [item EXCEPT !.attrs = taken.rest]
    IN
    IF ~taken.ok THEN Err(Error(Span(item.pos, "attr"), <<"unexpected attribute">>), item1)
    ELSE
    LET parsed == [i \in DOMAIN taken.taken |-> CallAttr_parse(taken.taken[i]).attr]
        part == partition_attrs(parsed, 1,
                    [ok |-> TRUE, msg |-> "", weight_attrs |-> <<>>,
                     call_idx_attrs |-> <<>>, selector_attr |-> None],
                    global_selector)
    IN
    IF ~part.ok THEN Err(Error(sig, <<part.msg>>), item1)
    ELSE IF IsSome(weight_attrs_error(part.weight_attrs))
    THEN Err(Error(sig, <<Unwrap(weight_attrs_error(part.weight_attrs))>>), item1)
    ELSE IF IsSome(call_idx_attrs_error(part.call_idx_attrs))
    THEN Err(Error(sig, <<Unwrap(call_idx_attrs_error(part.call_idx_attrs))>>), item1)
    ELSE
    LET weight == part.weight_attrs[Len(part.weight_attrs)].expr
        call_index == part.call_idx_attrs[Len(part.call_idx_attrs)].idx
        ident == Ident(item.ident, Span(item.pos, "ident"))
        used == used_fn_of(seen.indices, call_index, ident)
    IN
    IF IsSome(used)
    THEN LET used_fn == Unwrap(used)
             msg == MsgConflict(used_fn.name, ident.name, call_index)
         IN Err(Error(used_fn.span, msg) \o Error(ident.span, msg), item1)
    ELSE
    LET with_selector == with_selector_of(part.selector_attr, global_selector)
        sel == skip_and_selector(with_selector, part.selector_attr, item1.inputs, item.pos)
    IN
    IF ~sel.ok THEN Err(sel.err, item1)
    ELSE
    LET collected == collect_args(item1.inputs, sel.skip + 1, <<>>, item.pos)
        item2 == [item1 EXCEPT !.inputs = collected.inputs]
    IN
    IF collected.status = "Panic" THEN Panic(item2)
    ELSE IF collected.status = "Err" THEN Err(collected.err, item2)
    ELSE Ok(CallDef(calls0.interface_span,
                    Append(calls0.calls,
                           SingleCallDef(sel.selector, ident, collected.args, weight,
                                         call_index, get_doc_literals(item2.attrs),
                                         item2.attrs, attr_span))),
            item2)

(***************************************************************************)
(* selector::SelectorDef, the table of the declared selectors, and its     *)
(* check_selector: a named requirement wants a selector of that name, a    *)
(* default requirement the selector marked default, each with the return   *)
(* type the call expects.                                                  *)
(***************************************************************************)
SelectorEntry(name, return_ty, default) ==
    [name |-> name, return_ty |-> return_ty, default |-> default]

check_selector(selectors, selector) ==
    IF selector.k = "Named"
    THEN \E i \in DOMAIN selectors :
            /\ selectors[i].name = selector.name
            /\ selectors[i].return_ty = selector.return_ty
    ELSE \E i \in DOMAIN selectors :
            /\ selectors[i].default
            /\ selectors[i].return_ty = selector.return_ty

check_selector_error(selector) ==
    Error(Span(0, "selector"), <<"Invalid interface::definition, no matching selector",
                                 selector.k, selector.name>>)

(***************************************************************************)
(* CallDef::check_selectors: the calls in table order; the first call      *)
(* whose selector is not satisfied ends the walk with its error.           *)
(***************************************************************************)
MsgExpectedSelector(selector) ==
    <<"Invalid interface::definition, expected a selector of kind", selector.k,
      selector.name, "found none.">>

\* a walk that drops the result of check_selector
RECURSIVE check_selectors_from_unpropagated(_, _, _)

check_selectors_from_unpropagated(calls, i, selectors) ==
    IF i > Len(calls) THEN [status |-> "Ok", err |-> <<>>]
    ELSE LET call == calls[i] IN
         IF IsSome(call.selector) /\ ~IsSome(selectors)
         THEN [status |-> "Err",
               err |-> Error(call.attr_span, MsgExpectedSelector(Unwrap(call.selector)))]
         ELSE check_selectors_from_unpropagated(calls, i + 1, selectors)

\* a walk that passes over the calls with the default selector
RECURSIVE check_selectors_from_named_only(_, _, _)

check_selectors_from_named_only(calls, i, selectors) ==
    IF i > Len(calls) THEN [status |-> "Ok", err |-> <<>>]
    ELSE LET call == calls[i] IN
         IF IsSome(call.selector) /\ Unwrap(call.selector).k = "Named"
         THEN LET selector == Unwrap(call.selector) IN
              IF IsSome(selectors)
              THEN IF check_selector(Unwrap(selectors), selector)
                   THEN check_selectors_from_named_only(calls, i + 1, selectors)
                   ELSE [status |-> "Err", err |-> check_selector_error(selector)]
              ELSE [status |-> "Err",
                    err |-> Error(call.attr_span, MsgExpectedSelector(selector))]
         ELSE check_selectors_from_named_only(calls, i + 1, selectors)

RECURSIVE check_selectors_from(_, _, _)

check_selectors_from(calls, i, selectors) ==
    IF i > Len(calls) THEN [status |-> "Ok", err |-> <<>>]
    ELSE LET call == calls[i] IN
         IF IsSome(call.selector)
         THEN LET selector == Unwrap(call.selector) IN
              IF IsSome(selectors)
              THEN IF check_selector(Unwrap(selectors), selector)
                   THEN check_selectors_from(calls, i + 1, selectors)
                   ELSE [status |-> "Err", err |-> check_selector_error(selector)]
              ELSE [status |-> "Err",
                    err |-> Error(call.attr_span, MsgExpectedSelector(selector))]
         ELSE check_selectors_from(calls, i + 1, selectors)

check_selectors(self, selectors) == check_selectors_from(self.calls, 1, selectors)

(***************************************************************************)
(* Bounds of the model.                                                    *)
(***************************************************************************)
\* the fold is followed up to this many accepted calls
MaxCalls == 2

\* call indices written in the declarations are 0..MaxIndex
MaxIndex == 1

\* a method carries up to this many interface attributes
MaxAttrs == 4

(***************************************************************************)
(* The declarations the scanner may hand in.                               *)
(***************************************************************************)
Names == {"transfer", "approve"}

Indices == 0 .. MaxIndex

InterfaceSpans == {Span(0, "Pip20"), Span(0, "other")}

T_Origin == Plain(<<"Self", "RuntimeOrigin">>)

T_AccountId == Plain(<<"Self", "AccountId">>)

T_Balance == Plain(<<"Self", "Balance">>)

T_Currency == Plain(<<"Self", "Currency">>)

T_Select(ty) == Generic("Select", ty)

T_CallResult == Plain(<<"CallResult">>)

T_InterfaceResult == Plain(<<"InterfaceResult">>)

\* the types of ordinary arguments
ArgTypes ==
    { Plain(<<"u32">>),
      Plain(<<"Self">>),
      T_AccountId,
      Plain(<<"Runtime", "Balance">>),
      Plain(<<"Self", "Self">>),
      Generic("Vec", T_Balance),
      Generic("Vec", Plain(<<"u8">>)),
      TypeTuple(<<T_Currency, T_Balance>>),
      TypeTuple(<<Plain(<<"u32">>), Plain(<<"u8">>)>>),
      T_Select(T_Currency),
      \* <Self::Currency as Trait>::Assoc
      TypePath(Some(QSelf(T_Currency, 1)),
               <<PathSegment("Trait", <<>>), PathSegment("Assoc", <<>>)>>),
      \* <<Self as Pip20>::Currency as Trait>::Assoc
      TypePath(Some(QSelf(TypePath(Some(QSelf(Plain(<<"Self">>), 1)),
                                   <<PathSegment("Pip20", <<>>),
                                     PathSegment("Currency", <<>>)>>), 1)),
               <<PathSegment("Trait", <<>>), PathSegment("Assoc", <<>>)>>),
      \* <Vec<Self::Balance> as IntoIterator>::Item
      TypePath(Some(QSelf(Generic("Vec", T_Balance), 1)),
               <<PathSegment("IntoIterator", <<>>), PathSegment("Item", <<>>)>>),
      \* <u32 as Trait>::Self
      TypePath(Some(QSelf(Plain(<<"u32">>), 1)),
               <<PathSegment("Trait", <<>>), PathSegment("Self", <<>>)>>) }

\* declared return types; None is a method without `-> ty`
Outputs ==
    { None,
      Some(T_CallResult),
      Some(T_InterfaceResult),
      Some(Plain(<<"InterfaceResultWithPostInfo">>)),
      Some(Plain(<<"frame_support", "CallResult">>)),
      Some(Generic("CallResult", Plain(<<"u8">>))),
      Some(TypeTuple(<<>>)) }

OriginArg == FnArg("Typed", Pat("Ident", "origin"), T_Origin, <<>>)

SelectArg == FnArg("Typed", Pat("Ident", "currency"), T_Select(T_Currency), <<>>)

RecvArg == FnArg("Typed", Pat("Ident", "recv"), T_AccountId, <<>>)

Receiver == FnArg("Receiver", Pat("Ident", "self"), Plain(<<"Self">>), <<>>)

\* parameter lists that differ in the parameters the signature checks read
InputLists ==
    { <<>>,
      <<Receiver>>,
      <<FnArg("Typed", Pat("Ident", "origin"), Plain(<<"RuntimeOrigin">>), <<>>)>>,
      <<FnArg("Typed", Pat("Ident", "origin"),
              Plain(<<"Self", "RuntimeOrigin", "Inner">>), <<>>)>>,
      <<OriginArg>>,
      <<OriginArg, RecvArg>>,
      <<OriginArg, SelectArg>>,
      <<OriginArg, SelectArg, RecvArg>>,
      <<OriginArg, FnArg("Typed", Pat("Ident", "currency"),
                         Plain(<<"Select">>), <<>>), RecvArg>>,
      <<OriginArg, FnArg("Typed", Pat("Ident", "currency"),
                         TypePath(None, <<PathSegment("Select", <<T_Currency, T_Balance>>)>>),
                         <<>>), RecvArg>>,
      <<OriginArg, FnArg("Typed", Pat("Ident", "currency"),
                         T_Select(Generic("Vec", T_Balance)), <<>>), RecvArg>> }

\* attribute lists by kind: I call_index, W weight, U use_selector, N no_selector
AttrKinds == {"I", "W", "U", "N"}

KindLists == UNION {[1 .. n -> AttrKinds] : n \in 0 .. MaxAttrs}

AttrsOf(kinds, idx) ==
    [i \in DOMAIN kinds |->
        IF kinds[i] = "I" THEN attr_call_index(idx)
        ELSE IF kinds[i] = "W" THEN attr_weight(ToString(i))
        ELSE IF kinds[i] = "U" THEN attr_use_selector("RestrictedCurrency")
        ELSE attr_no_selector]

Method(ident, attrs, inputs, output) == TraitItem("Method", ident, attrs, inputs, output)

\* every attribute list, on one signature and at call index 0
AttrDecls ==
    { Method("transfer", AttrsOf(kinds, 0), <<OriginArg, SelectArg, RecvArg>>,
             Some(T_CallResult)) : kinds \in KindLists }

\* every name at every index
IndexDecls ==
    { Method(name, <<attr_doc("docs")>> \o AttrsOf(<<"I", "W">>, idx),
             <<OriginArg, SelectArg, RecvArg>>, Some(T_CallResult)) :
        name \in Names, idx \in Indices }

\* the declarations of a trait whose calls differ in their directives
CallDecls == AttrDecls \cup IndexDecls

\* every parameter list, without and with a selector directive; every return
\* type; an item that is no method
SigDecls ==
    { Method("burn", AttrsOf(kinds, 0), inputs, Some(T_CallResult)) :
        kinds \in {<<"W", "I">>, <<"N", "W", "I">>, <<"U", "W", "I">>},
        inputs \in InputLists }
    \cup { Method("burn", AttrsOf(<<"W", "I">>, 0), <<OriginArg, SelectArg, RecvArg>>,
                  output) : output \in Outputs }
    \cup { TraitItem("Type", "Balance", <<>>, <<>>, None) }

\* every argument type; every pattern and number of compact markers
ArgDecls ==
    { Method("approve", AttrsOf(<<"W", "I">>, 1),
             <<OriginArg, SelectArg, FnArg("Typed", Pat("Ident", "amount"), ty, <<>>)>>,
             Some(T_CallResult)) : ty \in ArgTypes }
    \cup
    { Method("approve", AttrsOf(<<"W", "I">>, 1),
             <<OriginArg, SelectArg, FnArg("Typed", pat, Plain(<<"u32">>), compact)>>,
             Some(T_CallResult)) :
        pat \in {Pat("Ident", "amount"), Pat("Tuple", "")},
        compact \in {<<>>, <<attr_compact>>, <<attr_compact, attr_compact>>} }

\* the declarations of a trait whose calls differ in their signatures
SignatureDecls == SigDecls \cup ArgDecls

\* the selector definitions check_selectors may be given
S_Default == SelectorEntry("SelectCurrency", T_Currency, TRUE)

S_Restricted == SelectorEntry("RestrictedCurrency", T_Currency, FALSE)

S_Account == SelectorEntry("SelectAccount", T_AccountId, FALSE)

SelectorDefs ==
    { None, Some(<<>>), Some(<<S_Default>>), Some(<<S_Restricted>>),
      Some(<<S_Default, S_Restricted, S_Account>>),
      Some(<<S_Account, SelectorEntry("RestrictedCurrency", T_AccountId, TRUE)>>) }

(***************************************************************************)
(* The state: the definition's selector mode, the table the caller holds,  *)
(* and the last operation with what it was given and what it returned.     *)
(***************************************************************************)
VARIABLES
    pc,               \* "fold", "failed", "panicked" or "checked"
    global_selector,  \* the definition has #[interface::with_selector]
    calls,            \* Option<CallDef>: the table folded so far
    decl,             \* Option: the declaration last handed to try_from
    item_attrs,       \* Option: the attributes try_from left on that declaration
    selectors,        \* Option<Option<SelectorDef>>: what check_selectors was given
    result,           \* the last operation's status and diagnostics
    dispatch          \* Option: a call entry being dispatched, see below

vars == <<pc, global_selector, calls, decl, item_attrs, selectors, result, dispatch>>

Init ==
    /\ pc = "fold"
    /\ global_selector \in BOOLEAN
    /\ calls = None
    /\ decl = None
    /\ item_attrs = None
    /\ selectors = None
    /\ result = [status |-> "Ok", err |-> <<>>]
    /\ dispatch = None

\* the attributes on a declaration: the method's and each parameter's
AttrsOn(it) == [attrs |-> it.attrs, inputs |-> [i \in DOMAIN it.inputs |-> it.inputs[i].attrs]]

\* the number of calls folded so far
NumCalls == IF IsSome(calls) THEN Len(Unwrap(calls).calls) ELSE 0

(***************************************************************************)
(* The scanner hands the next declaration of the trait to try_from,        *)
(* together with the table of the previous step.  An error ends the        *)
(* definition: the table was moved into the call and is gone.              *)
(***************************************************************************)
TryFromUpTo(Decls, Spans, Max) ==
    /\ pc = "fold"
    /\ NumCalls < Max
    /\ \E d \in Decls, interface_span \in Spans :
        LET it == [d EXCEPT !.pos = NumCalls + 1]
            r == try_from(interface_span, calls, global_selector, Span(it.pos, "call"), it)
        IN
        /\ decl' = Some(it)
        /\ item_attrs' = Some(AttrsOn(r.item))
        /\ calls' = r.calls
        /\ result' = [status |-> r.status, err |-> r.err]
        /\ pc' = IF r.status = "Ok" THEN "fold"
                 ELSE IF r.status = "Err" THEN "failed" ELSE "panicked"
    /\ UNCHANGED <<global_selector, selectors, dispatch>>

TryFromOf(Decls, Spans) == TryFromUpTo(Decls, Spans, MaxCalls)

(***************************************************************************)
(* After the last call of the definition the table is checked against the  *)
(* selectors of the definition.                                            *)
(***************************************************************************)
CheckSelectors ==
    /\ pc = "fold"
    /\ IsSome(calls)
    /\ \E s \in SelectorDefs :
        LET r == check_selectors(Unwrap(calls), s) IN
        /\ selectors' = Some(s)
        /\ result' = r
    /\ pc' = "checked"
    /\ UNCHANGED <<global_selector, calls, decl, item_attrs, dispatch>>

\* a trait whose calls differ in their directives, names and indices
TryFrom == TryFromOf(CallDecls, {Span(0, "Pip20")})

Next == TryFrom \/ CheckSelectors

Spec == Init /\ [][Next]_vars

\* a trait whose calls differ in their signatures
TryFromSignature == TryFromOf(SignatureDecls, InterfaceSpans)

NextSignature == TryFromSignature \/ CheckSelectors

SpecSignature == Init /\ [][NextSignature]_vars

(***************************************************************************)
(* The calls of the trait Pip20 (interface.rs, lines 269-298): transfer at *)
(* index 0 without a selector directive, approve at index 1 with           *)
(* use_selector(RestrictedCurrency), burn at index 3 with no_selector.     *)
(* Each is there with the return type the trait declares and with          *)
(* CallResult.                                                             *)
(***************************************************************************)
MaxPip20Calls == 3

AmountArg == FnArg("Typed", Pat("Ident", "amount"), T_Balance, <<>>)

FromArg == FnArg("Typed", Pat("Ident", "from"), T_AccountId, <<>>)

Pip20_transfer(output) ==
    Method("transfer", <<attr_call_index(0), attr_weight("0")>>,
           <<OriginArg, SelectArg, RecvArg, AmountArg>>, output)

Pip20_burn(output) ==
    Method("burn", <<attr_call_index(3), attr_weight("0"), attr_no_selector>>,
           <<OriginArg, FromArg, AmountArg>>, output)

Pip20_approve(output) ==
    Method("approve",
           <<attr_call_index(1), attr_use_selector("RestrictedCurrency"), attr_weight("0")>>,
           <<OriginArg, SelectArg, RecvArg, AmountArg>>, output)

Pip20Decls ==
    { Pip20_transfer(Some(Plain(<<"InterfaceResultWithPostInfo">>))),
      Pip20_burn(Some(T_InterfaceResult)),
      Pip20_approve(Some(T_InterfaceResult)),
      Pip20_transfer(Some(T_CallResult)),
      Pip20_burn(Some(T_CallResult)),
      Pip20_approve(Some(T_CallResult)) }

TryFromPip20 == TryFromUpTo(Pip20Decls, {Span(0, "Pip20")}, MaxPip20Calls)

NextPip20 == TryFromPip20 \/ CheckSelectors

SpecPip20 == Init /\ [][NextPip20]_vars

(***************************************************************************)
(* A trait whose calls differ in the literal of their call_index: values   *)
(* inside and outside a u8, without and with a suffix.                     *)
(***************************************************************************)
attr_call_index_lit(n, suffix) == Attribute("interface", "call_index", n, suffix, "")

LiteralValues == {-1, 0, 3, U8Max, U8Max + 1, U8Max + 4, 2 * U8Max + 1}

LiteralSuffixes == {"", "u8", "u16"}

LiteralDecls ==
    { Method("transfer", <<attr_call_index_lit(n, suffix), attr_weight("0")>>,
             <<OriginArg, SelectArg, RecvArg>>, Some(T_CallResult)) :
        n \in LiteralValues, suffix \in LiteralSuffixes }

TryFromLiteral == TryFromOf(LiteralDecls, {Span(0, "Pip20")})

NextLiteral == TryFromLiteral \/ CheckSelectors

SpecLiteral == Init /\ [][NextLiteral]_vars

(***************************************************************************)
(* A trait whose calls all ask for call index 0 and differ in their        *)
(* directives: every call after the first repeats the index of an entry.   *)
(***************************************************************************)
TryFromSameIndex == TryFromOf(AttrDecls, {Span(0, "Pip20")})

NextSameIndex == TryFromSameIndex \/ CheckSelectors

SpecSameIndex == Init /\ [][NextSameIndex]_vars

(***************************************************************************)
(* interface.rs, the runtime side.  An InterfaceCallEntry holds a          *)
(* selectable and an interface; dispatch_bypass_filter hands both, with    *)
(* the origin, to the interface's `call` and maps the error of the result  *)
(* with Into::into.  The interface is any implementation of trait Call:    *)
(* here one that answers Ok to one origin and selectable and Err to the    *)
(* others, and the calls it received are logged.                           *)
(***************************************************************************)
MaxSelectable == 1

MaxWeight == 1

H256 == 0 .. MaxSelectable

Origins == {"Root", "Signed"}

\* dispatch::PostDispatchInfo
PostDispatchInfo(actual_weight, pays_fee) ==
    [actual_weight |-> actual_weight, pays_fee |-> pays_fee]

PostInfos == {PostDispatchInfo(None, "Yes"), PostDispatchInfo(Some(MaxWeight), "No")}

\* enum Error, without the payloads of Interface and Module
Errors == {"NoMatchingSelectable", "ExpectedEmptySelectable", "Interface", "Module"}

InterfaceErrorWithInfo(post_info, error) == [post_info |-> post_info, error |-> error]

\* impl From<Error> for InterfaceErrorWithInfo<PostDispatchInfo>: the default post info
InterfaceErrorWithInfo_from(error) == InterfaceErrorWithInfo(PostDispatchInfo(None, "Yes"), error)

\* a conversion that makes a dispatch error of the interface error
InterfaceErrorWithPostInfo_into_converted(self) ==
    [k |-> "value", post_info |-> self.post_info, error |-> "Other"]

\* impl Into<DispatchErrorWithPostInfo> for InterfaceErrorWithPostInfo: todo!()
InterfaceErrorWithPostInfo_into(self) == [k |-> "todo"]

\* the implementations of trait Call the entry may wrap
CallInterfaces ==
    [origin : Origins, selectable : H256, ok : PostInfos,
     err : {InterfaceErrorWithInfo(p, e) : p \in PostInfos, e \in {"NoMatchingSelectable", "Module"}}
           \cup {InterfaceErrorWithInfo_from(e) : e \in Errors}]

\* Call::call of such an implementation, with the arguments it received
Call_call(self, origin, selectable) ==
    IF origin = self.origin /\ selectable = self.selectable
    THEN [k |-> "Ok", value |-> self.ok,
          received |-> <<[origin |-> origin, selectable |-> selectable]>>]
    ELSE [k |-> "Err", error |-> self.err,
          received |-> <<[origin |-> origin, selectable |-> selectable]>>]

InterfaceCallEntry(selectable, interface) == [selectable |-> selectable, interface |-> interface]

\* Result::map_err(Into::into) on the result of the call; a todo!() unwinds
dispatch_bypass_filter(self, origin) ==
    LET r == Call_call(self.interface, origin, self.selectable) IN
    [received |-> r.received,
     outcome |->
        IF r.k = "Ok" THEN [k |-> "Ok", value |-> r.value]
        ELSE LET e == InterfaceErrorWithPostInfo_into(r.error) IN
             IF e.k = "todo" THEN [k |-> "Panic"]
             ELSE [k |-> "Err", error |-> e]]

InitDispatch ==
    /\ pc = "dispatch"
    /\ global_selector = FALSE
    /\ calls = None
    /\ decl = None
    /\ item_attrs = None
    /\ selectors = None
    /\ result = [status |-> "Ok", err |-> <<>>]
    /\ \E selectable \in H256, interface \in CallInterfaces, origin \in Origins :
         dispatch = Some([entry |-> InterfaceCallEntry(selectable, interface),
                          origin |-> origin, received |-> <<>>, outcome |-> None])

DispatchBypassFilter ==
    /\ pc = "dispatch"
    /\ LET d == Unwrap(dispatch)
           r == dispatch_bypass_filter(d.entry, d.origin)
       IN
       /\ dispatch' = Some([d EXCEPT !.received = @ \o r.received,
                                     !.outcome = Some(r.outcome)])
       /\ pc' = IF r.outcome.k = "Panic" THEN "aborted" ELSE "returned"
    /\ UNCHANGED <<global_selector, calls, decl, item_attrs, selectors, result>>

NextDispatch == DispatchBypassFilter

SpecDispatch == InitDispatch /\ [][NextDispatch]_vars

(***************************************************************************)
(* What the claims speak about.                                            *)
(***************************************************************************)
\* the entries of the table the caller holds
Table == IF IsSome(calls) THEN Unwrap(calls).calls ELSE <<>>

\* the last try_from step returned a table
Accepted == IsSome(decl) /\ IsSome(calls)

\* the last try_from step returned an error
Rejected == IsSome(decl) /\ pc = "failed"

\* the declaration last handed to try_from, and the entry made from it
LastDecl == Unwrap(decl)

LastCall == Table[Len(Table)]

\* the diagnostics of the last operation, without their locations
Messages == [i \in DOMAIN result.err |-> result.err[i].msg]

\* how many `#[interface::kw]` attributes a declaration carries
CountKw(d, kw) ==
    Len(SelectSeq(d.attrs, LAMBDA a : a.ns = "interface" /\ a.kw = kw))

\* the attributes of one keyword, in the order written
AttrsKw(d, kw) == SelectSeq(d.attrs, LAMBDA a : a.ns = "interface" /\ a.kw = kw)

CountSelectorAttrs(d) == CountKw(d, "use_selector") + CountKw(d, "no_selector")

(***************************************************************************)
(* C1: every table try_from returns has pairwise distinct call_index       *)
(* values, after every step of the fold, and the assertion that rebuilds   *)
(* the index-to-name map from the incoming table never fails (no step      *)
(* panics).                                                                *)
(***************************************************************************)
C1_UniqueCallIndex ==
    /\ \A i, j \in DOMAIN Table : i # j => Table[i].call_index # Table[j].call_index
    /\ pc # "panicked"

\* a table of two calls came out of a step that was handed a table
C1_Witness ==
    /\ Accepted
    /\ Len(Table) >= 2
    /\ Table[1].call_index # Table[2].call_index

(***************************************************************************)
(* C2: a declaration that is valid in every other respect (one weight, one *)
(* call_index, a selector directive only where it is allowed, the accepted *)
(* signature) is accepted by a step exactly when its call index is not     *)
(* that of an entry of the incoming table; when it is, the step fails, no  *)
(* table is returned, and the diagnostic names the earlier method, the     *)
(* current method and the shared index, at both methods' locations.  So a  *)
(* fold succeeds as long as the indices are pairwise distinct and fails at *)
(* the first declaration that repeats one.                                 *)
(***************************************************************************)
OtherwiseValid(d) ==
    /\ d.kind = "Method"
    /\ d.inputs = <<OriginArg, SelectArg, RecvArg>>
    /\ d.output = Some(T_CallResult)
    /\ CountKw(d, "weight") = 1
    /\ CountKw(d, "call_index") = 1
    /\ CountSelectorAttrs(d) <= (IF global_selector THEN 1 ELSE 0)

\* the call index a declaration asks for
IndexOf(d) == AttrsKw(d, "call_index")[1].value

C2_Step ==
    (pc' # "checked" /\ OtherwiseValid(Unwrap(decl')))
    => LET d == Unwrap(decl')
           earlier == {i \in DOMAIN Table : Table[i].call_index = IndexOf(d)}
       IN
       /\ (result'.status = "Ok") <=> (earlier = {})
       /\ earlier # {} =>
            /\ calls' = None
            /\ \E i \in earlier :
                LET msg == <<"Call indices are conflicting: Both functions",
                             Table[i].name.name, "and", d.ident, "are at index",
                             ToString(IndexOf(d))>>
                IN result'.err = <<[span |-> Span(i, "ident"), msg |-> msg],
                                   [span |-> Span(d.pos, "ident"), msg |-> msg]>>
       /\ earlier = {} =>
            /\ IsSome(calls')
            /\ Len(Unwrap(calls').calls) = Len(Table) + 1
            /\ Unwrap(calls').calls[Len(Table) + 1].call_index = IndexOf(d)

C2_IndexCollision == [][C2_Step]_vars

\* a second declaration repeated the index of the first and was refused
C2_Witness ==
    /\ Rejected
    /\ OtherwiseValid(LastDecl)
    /\ LastDecl.pos = 2
    /\ Messages[1][1] = "Call indices are conflicting: Both functions"
    /\ Messages[1][2] # Messages[1][4]

(***************************************************************************)
(* C3: a declaration is accepted only if it carries exactly one weight and *)
(* exactly one call_index directive, and the entry holds that weight and   *)
(* that index.  Of the declarations that reach the two checks (the         *)
(* signature and the selector directives are in order): no weight fails    *)
(* with the missing-weight diagnostic, two or more with the                *)
(* too-many-weight one; with one weight, no call_index and two or more     *)
(* call_index fail with the missing and the too-many call_index            *)
(* diagnostics.                                                            *)
(***************************************************************************)
ReachesCardinalityChecks(d) ==
    /\ d.kind = "Method"
    /\ d.inputs = <<OriginArg, SelectArg, RecvArg>>
    /\ d.output = Some(T_CallResult)
    /\ CountSelectorAttrs(d) <= (IF global_selector THEN 1 ELSE 0)

RejectedWith(msg) ==
    /\ Rejected
    /\ calls = None
    /\ result.err = <<[span |-> Span(LastDecl.pos, "sig"), msg |-> <<msg>>]>>

C3_ExactlyOneWeightAndIndex ==
    IsSome(decl) =>
        LET d == LastDecl
            weights == CountKw(d, "weight")
            indexes == CountKw(d, "call_index")
        IN
        /\ Accepted =>
            /\ weights = 1
            /\ indexes = 1
            /\ LastCall.weight = AttrsKw(d, "weight")[1].text
            /\ LastCall.call_index = AttrsKw(d, "call_index")[1].value
        /\ ReachesCardinalityChecks(d) =>
            /\ weights = 0 => RejectedWith(MsgMissingWeight)
            /\ weights >= 2 => RejectedWith(MsgTooManyWeight)
            /\ (weights = 1 /\ indexes = 0) => RejectedWith(MsgMissingCallIndex)
            /\ (weights = 1 /\ indexes >= 2) => RejectedWith(MsgTooManyCallIndex)

\* a declaration with two weights and one call_index was refused for its weights
C3_Witness ==
    /\ IsSome(decl)
    /\ CountKw(LastDecl, "weight") = 2
    /\ CountKw(LastDecl, "call_index") = 1
    /\ RejectedWith(MsgTooManyWeight)

(***************************************************************************)
(* C4: under global_selector = false a method that bears a use_selector or *)
(* a no_selector directive fails and no table is returned; so every entry  *)
(* made under global_selector = false has no selector.                     *)
(***************************************************************************)
C4_SelectorGating ==
    ~global_selector =>
        /\ (IsSome(decl) /\ LastDecl.kind = "Method" /\ CountSelectorAttrs(LastDecl) >= 1)
            => (Rejected /\ calls = None)
        /\ \A i \in DOMAIN Table : Table[i].selector = None

\* a method in order but for its use_selector was refused for that directive
C4_Witness ==
    /\ ~global_selector
    /\ IsSome(decl)
    /\ CountKw(LastDecl, "use_selector") = 1
    /\ CountKw(LastDecl, "weight") = 1
    /\ CountKw(LastDecl, "call_index") = 1
    /\ RejectedWith(MsgNoGlobalSelector)

(***************************************************************************)
(* C5: a method that bears two selector directives (a no_selector and a    *)
(* use_selector in either order, or the same one twice) fails and no table *)
(* is returned; so an accepted method bears at most one.                   *)
(***************************************************************************)
C5_OneSelectorDirective ==
    IsSome(decl) =>
        /\ (LastDecl.kind = "Method" /\ CountSelectorAttrs(LastDecl) >= 2)
            => (Rejected /\ calls = None)
        /\ Accepted => CountSelectorAttrs(LastDecl) <= 1

\* use_selector first, no_selector second, all else in order: refused
C5_Witness ==
    /\ global_selector
    /\ IsSome(decl)
    /\ CountKw(LastDecl, "weight") = 1
    /\ CountKw(LastDecl, "call_index") = 1
    /\ LastDecl.attrs[1].kw = "use_selector"
    /\ LastDecl.attrs[2].kw = "no_selector"
    /\ RejectedWith(MsgBothSelectors)

(***************************************************************************)
(* C6: the selector of an accepted method follows from its selector        *)
(* directive and global_selector: use_selector(name) gives Named(name, T); *)
(* no directive under global_selector = true gives Default(T);             *)
(* no_selector, or no directive under global_selector = false, gives none; *)
(* T being the type inside the second parameter's Select<T>.  The          *)
(* arguments are the parameters after the first two when there is a        *)
(* selector and after the first one when there is none.                    *)
(***************************************************************************)
\* the type inside `Select<T>`
InnerType(ty) == ty.segments[1].args[1]

C6_SelectorResolution ==
    Accepted =>
        LET d == LastDecl
            T == InnerType(d.inputs[2].ty)
            expected ==
                IF CountKw(d, "use_selector") = 1
                THEN Some([k |-> "Named", name |-> AttrsKw(d, "use_selector")[1].text,
                           return_ty |-> T])
                ELSE IF CountKw(d, "no_selector") = 1 THEN None
                ELSE IF global_selector
                THEN Some([k |-> "Default", name |-> "", return_ty |-> T])
                ELSE None
            skip == IF LastCall.selector # None THEN 2 ELSE 1
        IN
        /\ LastCall.selector = expected
        /\ Len(LastCall.args) = Len(d.inputs) - skip
        /\ \A i \in DOMAIN LastCall.args : LastCall.args[i].ident = d.inputs[skip + i].pat.ident

\* use_selector on a method whose second parameter is Select<Vec<Self::Balance>>
C6_Witness ==
    /\ Accepted
    /\ LastCall.selector =
         Some([k |-> "Named", name |-> "RestrictedCurrency",
               return_ty |-> Generic("Vec", T_Balance)])
    /\ Len(LastDecl.inputs) = 3
    /\ Len(LastCall.args) = 1

(***************************************************************************)
(* C7: the return-type check accepts a call method declared to return      *)
(* `InterfaceResult` and refuses a method with no return type or with any  *)
(* other return type; a refusal returns no table.  Stated of the first     *)
(* declaration of a trait, in order in every other respect.                *)
(***************************************************************************)
C7_ReturnTypeInterfaceResult ==
    ( /\ IsSome(decl)
      /\ LastDecl.pos = 1
      /\ LastDecl.kind = "Method"
      /\ LastDecl.inputs = <<OriginArg, SelectArg, RecvArg>>
      /\ CountKw(LastDecl, "weight") = 1
      /\ CountKw(LastDecl, "call_index") = 1
      /\ CountSelectorAttrs(LastDecl) = 0 )
    => /\ Accepted <=> (LastDecl.output = Some(T_InterfaceResult))
       /\ ~Accepted => (Rejected /\ calls = None)

(***************************************************************************)
(* C8: the type stored for an argument is the parameter's type with every  *)
(* `Self` segment, at any depth (type arguments, tuple elements, qualified *)
(* selves), replaced by `Runtime`, and nothing else changed.               *)
(***************************************************************************)
RECURSIVE SubstituteSelf(_)

SubstituteSelf(ty) ==
    [k |-> ty.k,
     qself |-> IF ty.qself = None THEN None
               ELSE Some(QSelf(SubstituteSelf(Unwrap(ty.qself).ty),
                               Unwrap(ty.qself).position)),
     segments |-> [i \in DOMAIN ty.segments |->
                     PathSegment(IF ty.segments[i].ident = "Self" THEN "Runtime"
                                 ELSE ty.segments[i].ident,
                                 [j \in DOMAIN ty.segments[i].args |->
                                     SubstituteSelf(ty.segments[i].args[j])])],
     elems |-> [i \in DOMAIN ty.elems |-> SubstituteSelf(ty.elems[i])]]

\* the parameter an argument of the last entry was made from
ParamOf(i) ==
    LastDecl.inputs[(IF LastCall.selector # None THEN 2 ELSE 1) + i]

C8_SelfReplacedEverywhere ==
    Accepted =>
        \A i \in DOMAIN LastCall.args : LastCall.args[i].ty = SubstituteSelf(ParamOf(i).ty)

(***************************************************************************)
(* C9: the rewrite leaves a type without a `Self` segment as it is, and    *)
(* rewriting a rewritten type changes nothing.                             *)
(***************************************************************************)
RECURSIVE HasSelf(_)

HasSelf(ty) ==
    \/ ty.qself # None /\ HasSelf(Unwrap(ty.qself).ty)
    \/ \E i \in DOMAIN ty.segments :
        \/ ty.segments[i].ident = "Self"
        \/ \E j \in DOMAIN ty.segments[i].args : HasSelf(ty.segments[i].args[j])
    \/ \E i \in DOMAIN ty.elems : HasSelf(ty.elems[i])

C9_RewriteIdentityAndIdempotent ==
    Accepted =>
        \A i \in DOMAIN LastCall.args :
            /\ ~HasSelf(ParamOf(i).ty) => LastCall.args[i].ty = ParamOf(i).ty
            /\ adapt_type_to_generic_if_self(LastCall.args[i].ty) = LastCall.args[i].ty

\* <Self::Currency as Trait>::Assoc was rewritten, and rewriting it again is a no-op
C9_Witness ==
    /\ Accepted
    /\ Len(LastCall.args) = 1
    /\ ParamOf(1).ty = TypePath(Some(QSelf(T_Currency, 1)),
                               <<PathSegment("Trait", <<>>), PathSegment("Assoc", <<>>)>>)
    /\ LastCall.args[1].ty # ParamOf(1).ty
    /\ ~HasSelf(LastCall.args[1].ty)
    /\ adapt_type_to_generic_if_self(LastCall.args[1].ty) = LastCall.args[1].ty

(***************************************************************************)
(* C10: check_selectors goes through the entries in table order and an     *)
(* entry without a selector never makes it fail.  Given no selector        *)
(* definitions it fails exactly when some entry has a selector, with the   *)
(* diagnostic at the first such call; given selector definitions it        *)
(* returns the failure of check_selector for the first entry whose         *)
(* selector does not pass, and succeeds when every selector passes.        *)
(***************************************************************************)
\* the entries with a selector, and the first of a set of entries
WithSelector == {i \in DOMAIN Table : Table[i].selector # None}

First(S) == CHOOSE i \in S : \A j \in S : i <= j

C10_CheckSelectors ==
    pc = "checked" =>
        IF Unwrap(selectors) = None
        THEN IF WithSelector = {} THEN result = [status |-> "Ok", err |-> <<>>]
             ELSE LET call == Table[First(WithSelector)] IN
                  /\ result.status = "Err"
                  /\ Len(result.err) = 1
                  /\ result.err[1].span = call.attr_span
                  /\ result.err[1].span = Span(First(WithSelector), "call")
                  /\ result.err[1].msg = MsgExpectedSelector(Unwrap(call.selector))
        ELSE LET defs == Unwrap(Unwrap(selectors))
                 failing == {i \in WithSelector :
                                ~check_selector(defs, Unwrap(Table[i].selector))}
             IN
             IF failing = {} THEN result = [status |-> "Ok", err |-> <<>>]
             ELSE /\ result.status = "Err"
                  /\ result.err =
                       check_selector_error(Unwrap(Table[First(failing)].selector))

\* two calls with selectors, the first passes the definitions, the second does not
C10_Witness ==
    /\ pc = "checked"
    /\ Unwrap(selectors) # None
    /\ Len(Table) = 2
    /\ WithSelector = {1, 2}
    /\ check_selector(Unwrap(Unwrap(selectors)), Unwrap(Table[1].selector))
    /\ ~check_selector(Unwrap(Unwrap(selectors)), Unwrap(Table[2].selector))
    /\ result.status = "Err"

(***************************************************************************)
(* C11: under global selector mode, transfer (index 0, no selector         *)
(* directive), approve (index 1, use_selector RestrictedCurrency) and burn *)
(* (index 3, no_selector), declared in this order and accepted, make a     *)
(* table of three entries in declaration order with the indices 0, 1, 3    *)
(* and the selectors Default, Named(RestrictedCurrency), None.             *)
(* check_selectors on it succeeds given selectors that hold                *)
(* RestrictedCurrency and a default selector; given no selectors, or       *)
(* selectors that hold none, it fails on the transfer entry, the first     *)
(* entry with a selector.                                                  *)
(***************************************************************************)
\* the entries made from the declaration at position p
DeclaredAt(p) == {i \in DOMAIN Table : Table[i].attr_span = Span(p, "call")}

NamesDeclaredAt(p) == {Table[i].name.name : i \in DeclaredAt(p)}

\* the three calls were declared in the order transfer, approve, burn
Pip20Compiled ==
    /\ global_selector
    /\ pc \in {"fold", "checked"}
    /\ NamesDeclaredAt(1) = {"transfer"}
    /\ NamesDeclaredAt(2) = {"approve"}
    /\ NamesDeclaredAt(3) = {"burn"}

Pip20Table ==
    /\ Len(Table) = 3
    /\ [i \in 1 .. 3 |-> Table[i].name.name] = <<"transfer", "approve", "burn">>
    /\ [i \in 1 .. 3 |-> Table[i].call_index] = <<0, 1, 3>>
    /\ [i \in 1 .. 3 |-> Table[i].selector] =
         << Some(SelectorType("Default", "", T_Currency)),
            Some(SelectorType("Named", "RestrictedCurrency", T_Currency)),
            None >>

\* the selectors hold RestrictedCurrency and a default selector, of the type the calls select
HoldsBoth(defs) ==
    /\ \E i \in DOMAIN defs : defs[i].name = "RestrictedCurrency" /\ defs[i].return_ty = T_Currency
    /\ \E i \in DOMAIN defs : defs[i].default /\ defs[i].return_ty = T_Currency

\* the error check_selectors returned is the one of entry i
FailsOn(i) ==
    /\ result.status = "Err"
    /\ result.err = IF Unwrap(selectors) = None
                    THEN Error(Table[i].attr_span,
                               MsgExpectedSelector(Unwrap(Table[i].selector)))
                    ELSE check_selector_error(Unwrap(Table[i].selector))

NoSelectorsGiven == Unwrap(selectors) \in {None, Some(<<>>)}

C11_EndToEnd ==
    Pip20Compiled =>
        /\ Pip20Table
        /\ pc = "checked" =>
            /\ (Unwrap(selectors) # None /\ HoldsBoth(Unwrap(Unwrap(selectors))))
                  => result = [status |-> "Ok", err |-> <<>>]
            /\ NoSelectorsGiven => (FailsOn(1) /\ ~FailsOn(2))

\* the statement with the failure on the approve entry
C11_FailsOnApprove ==
    Pip20Compiled =>
        /\ Pip20Table
        /\ pc = "checked" =>
            /\ (Unwrap(selectors) # None /\ HoldsBoth(Unwrap(Unwrap(selectors))))
                  => result = [status |-> "Ok", err |-> <<>>]
            /\ NoSelectorsGiven => FailsOn(2)

\* the three calls were compiled and the table was checked against no selectors
C11_Witness ==
    /\ Pip20Compiled
    /\ Pip20Table
    /\ pc = "checked"
    /\ Unwrap(selectors) = None
    /\ result.status = "Err"
    /\ result.err[1].span = Span(1, "call")

(***************************************************************************)
(* C12: a call_index annotation parses to Index(n) only when its literal   *)
(* has no suffix and 0 <= n <= 255, and then to that n; a literal with a   *)
(* suffix or outside a u8 does not parse and the declaration is refused,   *)
(* so every index in a table is within 0..255 and is the literal written.  *)
(***************************************************************************)
PlainU8(a) == a.suffix = "" /\ a.value \in 0 .. U8Max

C12_CallIndexLiteral ==
    /\ \A i \in DOMAIN Table : Table[i].call_index \in 0 .. U8Max
    /\ (IsSome(decl) /\ LastDecl.kind = "Method") =>
        LET idx == AttrsKw(LastDecl, "call_index") IN
        /\ \A i \in DOMAIN idx :
            /\ CallAttr_parse(idx[i]).ok <=> PlainU8(idx[i])
            /\ PlainU8(idx[i]) =>
                 CallAttr_parse(idx[i]).attr = CallAttr("Index", idx[i].value, "", "")
        /\ Accepted =>
            /\ \A i \in DOMAIN idx : PlainU8(idx[i])
            /\ LastCall.call_index = idx[1].value
        /\ (\E i \in DOMAIN idx : ~PlainU8(idx[i])) => ~Accepted

\* the literal 256, without a suffix, was refused
C12_Witness ==
    /\ Rejected
    /\ LastDecl.kind = "Method"
    /\ AttrsKw(LastDecl, "call_index")[1].suffix = ""
    /\ AttrsKw(LastDecl, "call_index")[1].value = U8Max + 1
    /\ ~CallAttr_parse(AttrsKw(LastDecl, "call_index")[1]).ok

(***************************************************************************)
(* C13: within one step the first failing check alone decides the outcome, *)
(* and the checks on the directives run in this order: the selector        *)
(* directives while they are partitioned (a selector directive without the *)
(* global selector mode; both kinds; one kind twice), then the number of   *)
(* weight directives, then the number of call_index directives, then the   *)
(* collision of the call index.  A declaration that repeats the index of   *)
(* an earlier entry and carries a selector directive without the global    *)
(* selector mode is refused for the selector directive.                    *)
(***************************************************************************)
\* a step of try_from on a method with the accepted signature
DirectiveStep ==
    /\ pc' # "checked"
    /\ Unwrap(decl').kind = "Method"
    /\ Unwrap(decl').inputs = <<OriginArg, SelectArg, RecvArg>>
    /\ Unwrap(decl').output = Some(T_CallResult)

\* the declaration of the step repeats the call index of an entry of the incoming table
Collides(d) ==
    /\ CountKw(d, "call_index") >= 1
    /\ \E i \in DOMAIN Table :
          Table[i].call_index = AttrsKw(d, "call_index")[Len(AttrsKw(d, "call_index"))].value

\* the step failed with one diagnostic, at the signature, with one of these messages
FailsWith(msgs) ==
    /\ result'.status = "Err"
    /\ calls' = None
    /\ Len(result'.err) = 1
    /\ result'.err[1].span = Span(Unwrap(decl').pos, "sig")
    /\ Len(result'.err[1].msg) = 1
    /\ result'.err[1].msg[1] \in msgs

C13_Step ==
    DirectiveStep =>
        LET d == Unwrap(decl')
            weights == CountKw(d, "weight")
            indexes == CountKw(d, "call_index")
            directives == CountSelectorAttrs(d)
        IN
        IF ~global_selector /\ directives >= 1
        THEN FailsWith({MsgNoGlobalSelector})
        ELSE IF directives >= 2
        THEN FailsWith({MsgBothSelectors, MsgMultipleNoSelector, MsgMultipleUseSelector})
        ELSE IF weights # 1
        THEN FailsWith({MsgMissingWeight, MsgTooManyWeight})
        ELSE IF indexes # 1
        THEN FailsWith({MsgMissingCallIndex, MsgTooManyCallIndex})
        ELSE IF Collides(d)
        THEN /\ result'.status = "Err"
             /\ Len(result'.err) = 2
             /\ result'.err[1].msg[1] = "Call indices are conflicting: Both functions"
        ELSE result'.status = "Ok"

C13_CheckOrder == [][C13_Step]_vars

\* the statement with the selector mode checked after the collision of the index
C13_GatingAfterCollisionStep ==
    DirectiveStep =>
        LET d == Unwrap(decl')
            weights == CountKw(d, "weight")
            indexes == CountKw(d, "call_index")
            directives == CountSelectorAttrs(d)
        IN
        IF directives >= 2
        THEN FailsWith({MsgNoGlobalSelector, MsgBothSelectors, MsgMultipleNoSelector,
                        MsgMultipleUseSelector})
        ELSE IF weights # 1
        THEN FailsWith({MsgMissingWeight, MsgTooManyWeight})
        ELSE IF indexes # 1
        THEN FailsWith({MsgMissingCallIndex, MsgTooManyCallIndex})
        ELSE IF Collides(d)
        THEN /\ result'.status = "Err"
             /\ Len(result'.err) = 2
             /\ result'.err[1].msg[1] = "Call indices are conflicting: Both functions"
        ELSE IF ~global_selector /\ directives >= 1
        THEN FailsWith({MsgNoGlobalSelector})
        ELSE result'.status = "Ok"

C13_GatingAfterCollision == [][C13_GatingAfterCollisionStep]_vars

\* the second call of the trait repeats index 0, has one weight and one call_index, and
\* carries a selector directive without the global selector mode: refused for the directive
C13_Witness ==
    /\ Rejected
    /\ ~global_selector
    /\ LastDecl.pos = 2
    /\ CountKw(LastDecl, "weight") = 1
    /\ CountKw(LastDecl, "call_index") = 1
    /\ IndexOf(LastDecl) = 0
    /\ CountSelectorAttrs(LastDecl) = 1
    /\ Messages = <<(<<MsgNoGlobalSelector>>)>>

(***************************************************************************)
(* C14: a step of try_from either fails and returns only an error, with no *)
(* table, whatever the cause; or it returns the incoming table with one    *)
(* entry more, made from the declaration and put at the end: the earlier   *)
(* entries are the same and in the same order, and the location of the     *)
(* interface is the one of the incoming table, whichever interface_span    *)
(* the step is given.                                                      *)
(***************************************************************************)
C14_Step ==
    pc' # "checked" =>
        LET d == Unwrap(decl') IN
        \/ /\ result'.status = "Err"
           /\ result'.err # <<>>
           /\ calls' = None
           /\ pc' = "failed"
        \/ /\ result'.status = "Ok"
           /\ result'.err = <<>>
           /\ IsSome(calls')
           /\ LET new == Unwrap(calls') IN
              /\ Len(new.calls) = Len(Table) + 1
              /\ SubSeq(new.calls, 1, Len(Table)) = Table
              /\ new.calls[Len(new.calls)].name.name = d.ident
              /\ new.calls[Len(new.calls)].attr_span = Span(d.pos, "call")
              /\ IsSome(calls) => new.interface_span = Unwrap(calls).interface_span
              /\ ~IsSome(calls) => new.interface_span \in InterfaceSpans

C14_AppendOrFail == [][C14_Step]_vars

\* a second entry was appended to a table that was made at the other location
C14_Witness ==
    /\ Accepted
    /\ Len(Table) = 2
    /\ Table[1].attr_span = Span(1, "call")
    /\ Table[2].attr_span = Span(2, "call")
    /\ Unwrap(calls).interface_span = Span(0, "other")

(***************************************************************************)
(* C15: the argument list of an accepted method with n parameters and skip *)
(* count s has n - s tuples, the i-th made from parameter s + i: its       *)
(* identifier, its rewritten type, and is_compact, true exactly when the   *)
(* parameter carries one compact marker.  A parameter after the skipped    *)
(* ones with more than one marker or with a pattern that is no identifier  *)
(* makes the step fail.  Under no_selector the second parameter is not     *)
(* checked against Select<T> and is the first ordinary argument.           *)
(***************************************************************************)
Markers(arg) == Len(SelectSeq(arg.attrs, LAMBDA a : a.ns = "interface" /\ a.kw = "compact"))

\* the parameters a declaration's directives and the selector mode leave as arguments
SkipOf(d) ==
    IF CountKw(d, "use_selector") >= 1 THEN 2
    ELSE IF CountKw(d, "no_selector") >= 1 THEN 1
    ELSE IF global_selector THEN 2 ELSE 1

BadArgument(arg) == arg.k = "Typed" /\ (Markers(arg) > 1 \/ arg.pat.k # "Ident")

\* a first declaration that is in order up to its arguments and carries no_selector
NoSelectorInOrder(d) ==
    /\ global_selector
    /\ d.kind = "Method"
    /\ d.pos = 1
    /\ Len(d.inputs) >= 1
    /\ d.inputs[1] = OriginArg
    /\ d.output = Some(T_CallResult)
    /\ CountKw(d, "weight") = 1
    /\ CountKw(d, "call_index") = 1
    /\ CountKw(d, "no_selector") = 1
    /\ CountKw(d, "use_selector") = 0
    /\ \A i \in 2 .. Len(d.inputs) : d.inputs[i].k = "Typed" /\ ~BadArgument(d.inputs[i])

C15_ArgumentList ==
    IsSome(decl) =>
        LET d == LastDecl IN
        /\ Accepted =>
            LET s == IF LastCall.selector # None THEN 2 ELSE 1 IN
            /\ s = SkipOf(d)
            /\ Len(LastCall.args) = Len(d.inputs) - s
            /\ \A i \in DOMAIN LastCall.args :
                /\ LastCall.args[i].ident = d.inputs[s + i].pat.ident
                /\ LastCall.args[i].ty = adapt_type_to_generic_if_self(d.inputs[s + i].ty)
                /\ LastCall.args[i].is_compact <=> (Markers(d.inputs[s + i]) = 1)
        /\ (d.kind = "Method" /\ \E i \in SkipOf(d) + 1 .. Len(d.inputs) : BadArgument(d.inputs[i]))
              => Rejected
        /\ NoSelectorInOrder(d) =>
            /\ Accepted
            /\ LastCall.selector = None
            /\ Len(d.inputs) >= 2 => LastCall.args[1].ident = d.inputs[2].pat.ident

\* an entry with a compact argument, and after it a no_selector method whose second
\* parameter is not a Select<T> and is its first argument
C15_Witness ==
    /\ Accepted
    /\ Len(Table) = 2
    /\ \E i \in DOMAIN Table[1].args : Table[1].args[i].is_compact
    /\ CountKw(LastDecl, "no_selector") = 1
    /\ Len(LastDecl.inputs) >= 2
    /\ check_call_second_arg_type(LastDecl.inputs[2].ty) = None
    /\ LastCall.args[1].ident = LastDecl.inputs[2].pat.ident
    /\ LastCall.args[1].ty = LastDecl.inputs[2].ty

(***************************************************************************)
(* C16: a method that takes a selector (use_selector, or no directive      *)
(* under the global selector mode) is accepted only with a second          *)
(* parameter that is typed and of the shape Select<T>: with the origin     *)
(* parameter alone, or with a second parameter of another type, the step   *)
(* fails; when it is accepted the selector's return type is T.  A method   *)
(* that takes no selector is accepted whatever its second parameter is.    *)
(* Stated of the first declaration of a trait, in order in every other     *)
(* respect.                                                                *)
(***************************************************************************)
\* `Select<T>`: one segment named Select, with one type argument, unqualified
IsSelectOf(ty) ==
    /\ ty.k = "Path"
    /\ ty.qself = None
    /\ Len(ty.segments) = 1
    /\ ty.segments[1].ident = "Select"
    /\ Len(ty.segments[1].args) = 1

ReachesSelectorResolution(d) ==
    /\ d.kind = "Method"
    /\ d.pos = 1
    /\ Len(d.inputs) >= 1
    /\ d.inputs[1] = OriginArg
    /\ d.output = Some(T_CallResult)
    /\ CountKw(d, "weight") = 1
    /\ CountKw(d, "call_index") = 1
    /\ CountSelectorAttrs(d) <= (IF global_selector THEN 1 ELSE 0)
    /\ \A i \in 2 .. Len(d.inputs) : d.inputs[i].k = "Typed" /\ ~BadArgument(d.inputs[i])

C16_SecondParameter ==
    (IsSome(decl) /\ ReachesSelectorResolution(LastDecl)) =>
        LET d == LastDecl IN
        IF SkipOf(d) = 2
        THEN /\ Accepted <=> (Len(d.inputs) >= 2 /\ IsSelectOf(d.inputs[2].ty))
             /\ Accepted =>
                 /\ LastCall.selector # None
                 /\ Unwrap(LastCall.selector).return_ty = InnerType(d.inputs[2].ty)
             /\ Len(d.inputs) < 2 => RejectedWith(MsgNoSecondArg)
             /\ (Len(d.inputs) >= 2 /\ ~IsSelectOf(d.inputs[2].ty)) =>
                 /\ Rejected
                 /\ calls = None
                 /\ Messages[1] = <<MsgExpectedSelect>>
        ELSE /\ Accepted
             /\ LastCall.selector = None
             /\ Len(LastCall.args) = Len(d.inputs) - 1

\* a method that takes a selector and whose second parameter is Select<A, B> was refused
C16_Witness ==
    /\ Rejected
    /\ ReachesSelectorResolution(LastDecl)
    /\ SkipOf(LastDecl) = 2
    /\ Len(LastDecl.inputs) >= 2
    /\ LastDecl.inputs[2].ty.segments[1].ident = "Select"
    /\ Len(LastDecl.inputs[2].ty.segments[1].args) = 2
    /\ Messages[1] = <<MsgExpectedSelect>>

(***************************************************************************)
(* C17: dispatch_bypass_filter calls the interface's `call` once, with the *)
(* origin it was given and the selectable of the entry, and returns the    *)
(* success value of the call as it is; when the call returns an error the  *)
(* conversion of the error is the todo!() placeholder, so the function     *)
(* does not return and no dispatch error comes out.                        *)
(***************************************************************************)
Dispatched == IsSome(dispatch) /\ pc \in {"returned", "aborted"}

\* what the wrapped interface answers to the origin and the selectable of the entry
Answer ==
    LET d == Unwrap(dispatch) IN
    IF d.origin = d.entry.interface.origin /\ d.entry.selectable = d.entry.interface.selectable
    THEN "Ok" ELSE "Err"

C17_DispatchBypassFilter ==
    Dispatched =>
        LET d == Unwrap(dispatch) IN
        /\ d.received = <<[origin |-> d.origin, selectable |-> d.entry.selectable]>>
        /\ Answer = "Ok" =>
             /\ pc = "returned"
             /\ d.outcome = Some([k |-> "Ok", value |-> d.entry.interface.ok])
        /\ Answer = "Err" =>
             /\ pc = "aborted"
             /\ d.outcome = Some([k |-> "Panic"])

\* the interface returned an error with a post info of its own, and the dispatch aborted
C17_Witness ==
    /\ Dispatched
    /\ Answer = "Err"
    /\ Unwrap(dispatch).entry.interface.err.post_info # PostDispatchInfo(None, "Yes")
    /\ pc = "aborted"

====
